---- MODULE Spec2Model ----
(***************************************************************************)
(* A model of src/csv_diff/csv_diff.py: the CSV differ's main() run, its   *)
(* two comparators (literal_diff, entry_diff), the report formatter and    *)
(* the difflib.unified_diff routine that literal_diff calls.               *)
(*                                                                         *)
(* Strings are sequences of character codes, so that joining, lower-casing *)
(* prefix tests and lexicographic comparison are computed, not assumed.    *)
(* A row is a sequence of fields (strings); a table is a sequence of rows. *)
(***************************************************************************)
EXTENDS Integers, Sequences, FiniteSets, TLC

VARIABLES pc, args, env, file1_lines, file2_lines, opened, diff, out,
          reports, prompted, choice, dir_created, exit_code, error

vars == <<pc, args, env, file1_lines, file2_lines, opened, diff, out,
          reports, prompted, choice, dir_created, exit_code, error>>

----------------------------------------------------------------------------
(* Bounds of the model *)

\* Largest number of rows of an input file.
MaxRows == 2

----------------------------------------------------------------------------
(* Character codes *)

TAB == 9
SPACE == 32
PLUS == 43
COMMA == 44
MINUS == 45
DOT == 46
SLASH == 47

\* The letters the cells of the input rows are written with: "a", "b".
Alphabet == <<97, 98>>
LowA == Alphabet[1]
LowB == Alphabet[2]

\* The decimal digits "0".."9".
Digits == <<48, 49, 50, 51, 52, 53, 54, 55, 56, 57>>

\* ".csv", ".CSV", ".txt" : the values of Path.suffix the model feeds in.
SuffixCsv == <<DOT, 99, 115, 118>>
SuffixCSV == <<DOT, 67, 83, 86>>
SuffixTxt == <<DOT, 116, 120, 116>>
Suffixes == {SuffixCsv, SuffixCSV, SuffixTxt}

\* Replies typed at the "Create it? (y/n)" prompt: "y", "Y", "n", "".
ReplyY == <<121>>
ReplyUpperY == <<89>>
ReplyN == <<110>>
Replies == {ReplyY, ReplyUpperY, ReplyN, <<>>}

\* The rows the input files are built from:
\*   ["a"], ["b"], ["a","b"] and ["a,b"] (one quoted field holding a comma).
RowA == << <<LowA>> >>
RowB == << <<LowB>> >>
RowAB == << <<LowA>>, <<LowB>> >>
RowAcB == << <<LowA, COMMA, LowB>> >>
Rows == {RowA, RowB, RowAB, RowAcB}

RECURSIVE SeqsUpTo(_, _)
SeqsUpTo(S, n) ==
  IF n = 0 THEN {<<>>}
  ELSE LET shorter == SeqsUpTo(S, n - 1)
       IN shorter \cup {Append(s, x) : s \in {t \in shorter : Len(t) = n - 1}, x \in S}

\* Every table csv.reader can return within the bounds.
Tables == SeqsUpTo(Rows, MaxRows)

----------------------------------------------------------------------------
(* Python built-ins used by the program *)

Min(a, b) == IF a < b THEN a ELSE b
Max(a, b) == IF a > b THEN a ELSE b

\* str.lower() on ASCII text.
Lower(s) == [i \in DOMAIN s |-> IF s[i] \in 65..90 THEN s[i] + 32 ELSE s[i]]

\* str.startswith(c) for a one-character prefix c.
StartsWith(s, c) == Len(s) > 0 /\ s[1] = c

\* sep.join(parts)
RECURSIVE Join(_, _)
Join(sep, parts) ==
  IF Len(parts) = 0 THEN <<>>
  ELSE IF Len(parts) = 1 THEN parts[1]
  ELSE parts[1] \o sep \o Join(sep, Tail(parts))

\* s < t for two strings: code-point lexicographic, a proper prefix is smaller.
StrLess(s, t) ==
  \E k \in 1..(Min(Len(s), Len(t)) + 1) :
    /\ \A i \in 1..(k - 1) : s[i] = t[i]
    /\ IF k > Len(s) THEN k <= Len(t)
       ELSE IF k > Len(t) THEN FALSE
       ELSE s[k] < t[k]

\* r < q for two tuples of strings: lexicographic over the fields.
TupleLess(r, q) ==
  \E k \in 1..(Min(Len(r), Len(q)) + 1) :
    /\ \A i \in 1..(k - 1) : r[i] = q[i]
    /\ IF k > Len(r) THEN k <= Len(q)
       ELSE IF k > Len(q) THEN FALSE
       ELSE StrLess(r[k], q[k])

\* sorted(S) for a set S of tuples.
RECURSIVE Sorted(_)
Sorted(S) ==
  IF S = {} THEN <<>>
  ELSE LET m == CHOOSE x \in S : \A y \in S \ {x} : TupleLess(x, y)
       IN <<m>> \o Sorted(S \ {m})

\* set(tuple(row) for row in lines)
RowSet(lines) == {lines[i] : i \in DOMAIN lines}

----------------------------------------------------------------------------
(* entry_diff *)

\* A slip in the set difference: the rows of the other side are not removed.
OnlyIn_NoRemoval(s, t) == s

\* only_in_file1 = file1_set - file2_set, only_in_file2 = file2_set - file1_set
OnlyIn(s, t) == s \ t

\* common = file1_set & file2_set
Common(s, t) == s \cap t

\* A variant of the statistics that counts the totals over distinct rows.
EntryStats_DistinctTotals(f1, f2, only_in_file1, only_in_file2, common) ==
  [ file1_total |-> Cardinality(RowSet(f1)),
    file2_total |-> Cardinality(RowSet(f2)),
    common_count |-> Cardinality(common),
    file1_unique |-> Cardinality(only_in_file1),
    file2_unique |-> Cardinality(only_in_file2) ]

\* A variant of the statistics that derives common_count from the raw row
\* count of the first table.
EntryStats_CommonFromRawCount(f1, f2, only_in_file1, only_in_file2, common) ==
  [ file1_total |-> Len(f1),
    file2_total |-> Len(f2),
    common_count |-> Len(f1) - Cardinality(only_in_file1),
    file1_unique |-> Cardinality(only_in_file1),
    file2_unique |-> Cardinality(only_in_file2) ]

\* The "stats" record of entry_diff.
EntryStats(f1, f2, only_in_file1, only_in_file2, common) ==
  [ file1_total |-> Len(f1),
    file2_total |-> Len(f2),
    common_count |-> Cardinality(common),
    file1_unique |-> Cardinality(only_in_file1),
    file2_unique |-> Cardinality(only_in_file2) ]

\* select(lines, keep): the rows of lines that satisfy keep, in file order.
RECURSIVE SelectRows(_, _)
SelectRows(lines, keep) ==
  IF lines = <<>> THEN <<>>
  ELSE (IF Head(lines) \in keep THEN <<Head(lines)>> ELSE <<>>)
       \o SelectRows(Tail(lines), keep)

\* A variant that lists the rows in file order, repeats included, instead
\* of sorting the sets.
EntryDiff_FileOrder(f1, f2) ==
  LET file1_set == RowSet(f1)
      file2_set == RowSet(f2)
      only_in_file1 == OnlyIn(file1_set, file2_set)
      only_in_file2 == OnlyIn(file2_set, file1_set)
      common == Common(file1_set, file2_set)
  IN [ file1_only |-> SelectRows(f1, only_in_file1),
       file2_only |-> SelectRows(f2, only_in_file2),
       common |-> SelectRows(f1, common),
       stats |-> EntryStats(f1, f2, only_in_file1, only_in_file2, common) ]

\* A variant with a copy-and-paste slip: file2_only lists only_in_file1.
EntryDiff_CopiedSide(f1, f2) ==
  LET file1_set == RowSet(f1)
      file2_set == RowSet(f2)
      only_in_file1 == OnlyIn(file1_set, file2_set)
      only_in_file2 == OnlyIn(file2_set, file1_set)
      common == Common(file1_set, file2_set)
  IN [ file1_only |-> Sorted(only_in_file1),
       file2_only |-> Sorted(only_in_file1),
       common |-> Sorted(common),
       stats |-> EntryStats(f1, f2, only_in_file1, only_in_file2, common) ]

\* entry_diff(file1_lines, file2_lines, ...): the rows of each side as sets,
\* their differences and intersection sorted, and the statistics record.
EntryDiff(f1, f2) ==
  LET file1_set == RowSet(f1)
      file2_set == RowSet(f2)
      only_in_file1 == OnlyIn(file1_set, file2_set)
      only_in_file2 == OnlyIn(file2_set, file1_set)
      common == Common(file1_set, file2_set)
  IN [ file1_only |-> Sorted(only_in_file1),
       file2_only |-> Sorted(only_in_file2),
       common |-> Sorted(common),
       stats |-> EntryStats(f1, f2, only_in_file1, only_in_file2, common) ]

----------------------------------------------------------------------------
(* difflib.SequenceMatcher and difflib.unified_diff, as literal_diff uses   *)
(* them: no junk function, and autojunk is inert below 200 lines.          *)

\* Length of the common run of a[i..] and b[j..] inside a[..ahi], b[..bhi]
\* (1-based, inclusive upper ends).
RECURSIVE RunLen(_, _, _, _, _, _)
RunLen(a, b, i, j, ahi, bhi) ==
  IF i > ahi \/ j > bhi THEN 0
  ELSE IF a[i] # b[j] THEN 0
  ELSE 1 + RunLen(a, b, i + 1, j + 1, ahi, bhi)

\* SequenceMatcher.find_longest_match(alo, ahi, blo, bhi): the longest
\* matching block; of those the one starting earliest in a, and of those the
\* one starting earliest in b.  Ranges are 1-based inclusive here; the result
\* is <<i, j, k>>, with k = 0 (and i = alo, j = blo) when nothing matches.
FindLongestMatch(a, b, alo, ahi, blo, bhi) ==
  LET cands == {<<i, j>> : i \in alo..ahi, j \in blo..bhi}
      len(c) == RunLen(a, b, c[1], c[2], ahi, bhi)
      best == IF cands = {} THEN 0
              ELSE LET c == CHOOSE c \in cands : \A d \in cands : len(d) <= len(c)
                   IN len(c)
  IN IF best = 0 THEN <<alo, blo, 0>>
     ELSE LET top == {c \in cands : len(c) = best}
              c == CHOOSE c \in top :
                     \A d \in top : c[1] < d[1] \/ (c[1] = d[1] /\ c[2] <= d[2])
          IN <<c[1], c[2], best>>

\* The recursion of get_matching_blocks: the longest match, then the
\* matching blocks to its left and to its right, in order.
RECURSIVE MatchingBlocksIn(_, _, _, _, _, _)
MatchingBlocksIn(a, b, alo, ahi, blo, bhi) ==
  LET m == FindLongestMatch(a, b, alo, ahi, blo, bhi)
      i == m[1]
      j == m[2]
      k == m[3]
  IN IF k = 0 THEN <<>>
     ELSE (IF alo < i /\ blo < j
             THEN MatchingBlocksIn(a, b, alo, i - 1, blo, j - 1) ELSE <<>>)
          \o <<m>> \o
          (IF i + k <= ahi /\ j + k <= bhi
             THEN MatchingBlocksIn(a, b, i + k, ahi, j + k, bhi) ELSE <<>>)

\* Adjacent blocks are merged, as get_matching_blocks does before returning.
RECURSIVE CollapseBlocks(_, _)
CollapseBlocks(blocks, acc) ==
  IF blocks = <<>> THEN acc
  ELSE LET m == Head(blocks)
       IN IF acc # <<>> /\ acc[Len(acc)][1] + acc[Len(acc)][3] = m[1]
                       /\ acc[Len(acc)][2] + acc[Len(acc)][3] = m[2]
          THEN LET l == acc[Len(acc)]
               IN CollapseBlocks(Tail(blocks),
                    [acc EXCEPT ![Len(acc)] = <<l[1], l[2], l[3] + m[3]>>])
          ELSE CollapseBlocks(Tail(blocks), Append(acc, m))

\* SequenceMatcher.get_matching_blocks(): the blocks and the final sentinel.
GetMatchingBlocks(a, b) ==
  Append(CollapseBlocks(MatchingBlocksIn(a, b, 1, Len(a), 1, Len(b)), <<>>),
         <<Len(a) + 1, Len(b) + 1, 0>>)

\* SequenceMatcher.get_opcodes(): [tag, i1, i2, j1, j2] with Python's 0-based
\* half-open ranges a[i1:i2], b[j1:j2].
RECURSIVE OpcodesFrom(_, _, _)
OpcodesFrom(blocks, i, j) ==
  IF blocks = <<>> THEN <<>>
  ELSE LET ai == Head(blocks)[1] - 1
           bj == Head(blocks)[2] - 1
           size == Head(blocks)[3]
           tag == IF i < ai /\ j < bj THEN "replace"
                  ELSE IF i < ai THEN "delete"
                  ELSE IF j < bj THEN "insert"
                  ELSE ""
           change == IF tag # ""
                       THEN << [tag |-> tag, i1 |-> i, i2 |-> ai, j1 |-> j, j2 |-> bj] >>
                       ELSE <<>>
           equal == IF size > 0
                       THEN << [tag |-> "equal", i1 |-> ai, i2 |-> ai + size,
                                j1 |-> bj, j2 |-> bj + size] >>
                       ELSE <<>>
       IN change \o equal \o OpcodesFrom(Tail(blocks), ai + size, bj + size)

GetOpcodes(a, b) == OpcodesFrom(GetMatchingBlocks(a, b), 0, 0)

\* The edits of get_grouped_opcodes to the first and the last opcode: an
\* unchanged run at either end keeps at most n lines of context.
FixEnds(codes, n) ==
  LET c0 == IF codes = <<>>
              THEN << [tag |-> "equal", i1 |-> 0, i2 |-> 1, j1 |-> 0, j2 |-> 1] >>
              ELSE codes
      f == c0[1]
      c1 == IF f.tag = "equal"
              THEN [c0 EXCEPT ![1] = [f EXCEPT !.i1 = Max(f.i1, f.i2 - n),
                                                !.j1 = Max(f.j1, f.j2 - n)]]
              ELSE c0
      l == c1[Len(c1)]
  IN IF l.tag = "equal"
       THEN [c1 EXCEPT ![Len(c1)] = [l EXCEPT !.i2 = Min(l.i2, l.i1 + n),
                                               !.j2 = Min(l.j2, l.j1 + n)]]
       ELSE c1

\* The loop of get_grouped_opcodes: a new group starts at every unchanged
\* run longer than 2n; a group holding one unchanged run is dropped.
RECURSIVE GroupLoop(_, _, _, _)
GroupLoop(codes, n, group, groups) ==
  IF codes = <<>>
    THEN IF group # <<>> /\ ~(Len(group) = 1 /\ group[1].tag = "equal")
           THEN Append(groups, group)
           ELSE groups
  ELSE LET c == Head(codes)
       IN IF c.tag = "equal" /\ c.i2 - c.i1 > n + n
            THEN GroupLoop(Tail(codes), n,
                   << [c EXCEPT !.i1 = Max(c.i1, c.i2 - n), !.j1 = Max(c.j1, c.j2 - n)] >>,
                   Append(groups,
                     Append(group, [c EXCEPT !.i2 = Min(c.i2, c.i1 + n),
                                             !.j2 = Min(c.j2, c.j1 + n)])))
            ELSE GroupLoop(Tail(codes), n, Append(group, c), groups)

\* SequenceMatcher.get_grouped_opcodes(n)
GetGroupedOpcodes(a, b, n) == GroupLoop(FixEnds(GetOpcodes(a, b), n), n, <<>>, <<>>)

\* str(k) for a natural number k.
RECURSIVE Str(_)
Str(k) == IF k < 10 THEN <<Digits[k + 1]>>
          ELSE Str(k \div 10) \o <<Digits[(k % 10) + 1]>>

\* difflib._format_range_unified(start, stop)
FormatRangeUnified(start, stop) ==
  LET length == stop - start
  IN IF length = 1 THEN Str(start + 1)
     ELSE Str(IF length = 0 THEN start ELSE start + 1) \o <<COMMA>> \o Str(length)

\* [prefix + line for line in lines]
Prefixed(prefix, lines) == [i \in DOMAIN lines |-> <<prefix>> \o lines[i]]

\* The lines unified_diff yields for one opcode.
OpcodeLines(a, b, c) ==
  IF c.tag = "equal" THEN Prefixed(SPACE, SubSeq(a, c.i1 + 1, c.i2))
  ELSE (IF c.tag \in {"replace", "delete"}
          THEN Prefixed(MINUS, SubSeq(a, c.i1 + 1, c.i2)) ELSE <<>>)
       \o
       (IF c.tag \in {"replace", "insert"}
          THEN Prefixed(PLUS, SubSeq(b, c.j1 + 1, c.j2)) ELSE <<>>)

RECURSIVE GroupLines(_, _, _)
GroupLines(a, b, group) ==
  IF group = <<>> THEN <<>>
  ELSE OpcodeLines(a, b, Head(group)) \o GroupLines(a, b, Tail(group))

\* "@@ -<range of a> +<range of b> @@" and the lines of one hunk.
HunkLines(a, b, group) ==
  LET first == group[1]
      last == group[Len(group)]
  IN << <<64, 64, SPACE, MINUS>> \o FormatRangeUnified(first.i1, last.i2)
        \o <<SPACE, PLUS>> \o FormatRangeUnified(first.j1, last.j2)
        \o <<SPACE, 64, 64>> >>
     \o GroupLines(a, b, group)

RECURSIVE AllHunkLines(_, _, _)
AllHunkLines(a, b, groups) ==
  IF groups = <<>> THEN <<>>
  ELSE HunkLines(a, b, Head(groups)) \o AllHunkLines(a, b, Tail(groups))

\* A variant that writes the two header lines whether or not a hunk follows.
UnifiedDiff_HeaderAlways(a, b, fromfile, tofile, n) ==
  << <<MINUS, MINUS, MINUS, SPACE>> \o fromfile,
     <<PLUS, PLUS, PLUS, SPACE>> \o tofile >>
  \o AllHunkLines(a, b, GetGroupedOpcodes(a, b, n))

\* difflib.unified_diff(a, b, fromfile, tofile, lineterm='', n): the two
\* header lines "--- fromfile", "+++ tofile" before the first hunk, nothing
\* at all when there is no hunk.
UnifiedDiff(a, b, fromfile, tofile, n) ==
  LET groups == GetGroupedOpcodes(a, b, n)
  IN IF groups = <<>> THEN <<>>
     ELSE << <<MINUS, MINUS, MINUS, SPACE>> \o fromfile,
             <<PLUS, PLUS, PLUS, SPACE>> \o tofile >>
          \o AllHunkLines(a, b, groups)

----------------------------------------------------------------------------
(* literal_diff *)

\* Number of context lines literal_diff asks for.
ContextLines == 3

\* A pathlib.Path: its stem and its suffix; Path.name is their concatenation.
Path(stem, suffix) == [stem |-> stem, suffix |-> suffix]
Name(path) == path.stem \o path.suffix

\* The ISO text of a file's modification time; its value plays no part in
\* the comparison, so one fixed text stands for it.
MTime == <<116>>

\* [','.join(row) for row in lines]
RowStrings(lines) == [i \in DOMAIN lines |-> Join(<<COMMA>>, lines[i])]

\* literal_diff(file1_lines, file2_lines, file1_path, file2_path)
LiteralDiff(f1, f2, file1_path, file2_path) ==
  UnifiedDiff(RowStrings(f1), RowStrings(f2),
              <<LowA, SLASH>> \o Name(file1_path) \o <<TAB>> \o MTime,
              <<LowB, SLASH>> \o Name(file2_path) \o <<TAB>> \o MTime,
              ContextLines)

----------------------------------------------------------------------------
(* generate_diff_report *)

\* One line of printed or written text: the fixed wording, the number
\* formatted into it (0 when none) and the variable text that follows.
Line(lit, n, text) == [lit |-> lit, n |-> n, text |-> text]

\* The text of datetime.now() in the report header; one fixed text.
Timestamp == <<110, 111, 119>>

\* The enumerated rows of one side: "<sign> [<i>] <cells joined by ', '>".
EntryLines(sign, entries) ==
  [i \in DOMAIN entries |-> Line(sign, i, Join(<<COMMA, SPACE>>, entries[i]))]

\* A diff is the list literal_diff returns, held as [lines |-> ...], or the
\* dict entry_diff returns; before the comparison it is [none |-> TRUE].
NoDiff == [none |-> TRUE]
IsList(d) == "lines" \in DOMAIN d
IsDict(d) == "stats" \in DOMAIN d

\* generate_diff_report(diff, mode, file1_path, file2_path): the report
\* lines that are joined with "\n".
GenerateDiffReport(d, mode, file1_path, file2_path) ==
  LET header == << Line("CSV Diff Report", 0, <<>>),
                   Line("Generated: ", 0, Timestamp),
                   Line("Tool: CSV Differ by Nathan T. Beene", 0, <<>>),
                   Line("====", 0, <<>>),
                   Line("File A: ", 0, Name(file1_path)),
                   Line("File B: ", 0, Name(file2_path)),
                   Line("====", 0, <<>>),
                   Line("", 0, <<>>) >>
      literal == IF d.lines = <<>>
                   THEN << Line("No differences found.", 0, <<>>) >>
                   ELSE [i \in DOMAIN d.lines |-> Line("", 0, d.lines[i])]
      entry ==
        << Line("STATISTICS:", 0, <<>>),
           Line("  File A total rows: ", d.stats.file1_total, <<>>),
           Line("  File B total rows: ", d.stats.file2_total, <<>>),
           Line("  Common rows: ", d.stats.common_count, <<>>),
           Line("  Unique to File A: ", d.stats.file1_unique, <<>>),
           Line("  Unique to File B: ", d.stats.file2_unique, <<>>),
           Line("", 0, <<>>),
           Line("----", 0, <<>>),
           Line("", 0, <<>>) >>
        \o (IF d.file1_only # <<>>
              THEN << Line("ROWS ONLY IN FILE A", Len(d.file1_only), <<>>),
                      Line("----", 0, <<>>) >>
                   \o EntryLines("- ", d.file1_only) \o << Line("", 0, <<>>) >>
              ELSE <<>>)
        \o (IF d.file2_only # <<>>
              THEN << Line("ROWS ONLY IN FILE B", Len(d.file2_only), <<>>),
                      Line("----", 0, <<>>) >>
                   \o EntryLines("+ ", d.file2_only) \o << Line("", 0, <<>>) >>
              ELSE <<>>)
        \o (IF d.file1_only = <<>> /\ d.file2_only = <<>>
              THEN << Line("No differences found - files are identical.", 0, <<>>) >>
              ELSE <<>>)
  IN header \o (IF mode = "literal" THEN literal
                ELSE IF mode = "entry" THEN entry
                ELSE <<>>)

----------------------------------------------------------------------------
(* main: one run of the tool *)

\* The -m values a command line can carry: none, the two choices, or a word
\* that is not among the choices.
ModeArgs == {"omitted", "literal", "entry", "other"}

\* default= of the --mode argument.
DefaultMode == "summary"

\* args before parse_arguments has returned.
NoArgs == [file1 |-> Path(<<>>, <<>>), file2 |-> Path(<<>>, <<>>),
           mode |-> "", count |-> FALSE]

\* len([line for line in diff if line.startswith('+') or line.startswith('-')])
DiffCount(lines) ==
  Cardinality({i \in DOMAIN lines : StartsWith(lines[i], PLUS) \/ StartsWith(lines[i], MINUS)})

\* A variant of the test that looks at the truth value of diff alone.
IsEmptyDiff_TruthValueOnly(d, mode) == IsList(d) /\ d.lines = <<>>

\* The test of main that ends the run with "No differences found":
\*   not diff or (mode == "entry" and not file1_only and not file2_only)
IsEmptyDiff(d, mode) ==
  \/ IsList(d) /\ d.lines = <<>>
  \/ mode = "entry" /\ d.file1_only = <<>> /\ d.file2_only = <<>>

\* A variant of check_file_types without the comparison of the two suffixes.
TypesDiffer_Never(file1, file2) == FALSE

\* file1.suffix != file2.suffix, the first test of check_file_types.
TypesDiffer(file1, file2) == file1.suffix # file2.suffix

\* file1.suffix.lower() != ".csv", its second test.
TypeUnsupported(file1) == Lower(file1.suffix) # SuffixCsv

\* A variant of the prompt that takes every reply for a yes.
Accepts_Any(reply) == TRUE

\* A variant of the prompt that compares the reply without lower().
Accepts_CaseSensitive(reply) == reply = ReplyY

\* choice.lower() == 'y' in check_output_directory.
Accepts(reply) == Lower(reply) = ReplyY

Exit(code, kind) ==
  /\ exit_code' = code
  /\ error' = kind
  /\ pc' = "done"

Init ==
  /\ pc = "start"
  /\ args = NoArgs
  /\ env \in [dir_exists : BOOLEAN]
  /\ file1_lines = <<>>
  /\ file2_lines = <<>>
  /\ opened = {}
  /\ diff = NoDiff
  /\ out = <<>>
  /\ reports = <<>>
  /\ prompted = FALSE
  /\ choice = <<>>
  /\ dir_created = FALSE
  /\ exit_code = -1
  /\ error = "none"

\* parse_arguments(): argparse ends the run with status 2 when -m carries a
\* word outside the choices, and fills in the default when -m is absent.
ParseArguments ==
  /\ pc = "start"
  /\ \E m \in ModeArgs, s1 \in Suffixes, s2 \in Suffixes, c \in BOOLEAN :
       IF m = "other"
         THEN /\ Exit(2, "usage")
              /\ UNCHANGED args
         ELSE /\ args' = [file1 |-> Path(<<102, 49>>, s1),
                          file2 |-> Path(<<102, 50>>, s2),
                          mode |-> IF m = "omitted" THEN DefaultMode ELSE m,
                          count |-> c]
              /\ pc' = "validate"
              /\ UNCHANGED <<exit_code, error>>
  /\ UNCHANGED <<env, file1_lines, file2_lines, opened, diff, out, reports,
                 prompted, choice, dir_created>>

\* check_file_types(args.file1, args.file2)
CheckFileTypes ==
  /\ pc = "validate"
  /\ IF TypesDiffer(args.file1, args.file2) THEN Exit(1, "type_mismatch")
     ELSE IF TypeUnsupported(args.file1) THEN Exit(1, "type_unsupported")
     ELSE pc' = "read1" /\ UNCHANGED <<exit_code, error>>
  /\ UNCHANGED <<args, env, file1_lines, file2_lines, opened, diff, out,
                 reports, prompted, choice, dir_created>>

\* file1_lines = read_csv(args.file1): open() raises for a file that is
\* missing or unreadable, and nothing in main catches it.
ReadFile1 ==
  /\ pc = "read1"
  /\ opened' = opened \cup {1}
  /\ \/ /\ Exit(1, "read")
        /\ UNCHANGED file1_lines
     \/ /\ \E t \in Tables : file1_lines' = t
        /\ pc' = "read2"
        /\ UNCHANGED <<exit_code, error>>
  /\ UNCHANGED <<args, env, file2_lines, diff, out, reports, prompted, choice, dir_created>>

\* file2_lines = read_csv(args.file2)
ReadFile2 ==
  /\ pc = "read2"
  /\ opened' = opened \cup {2}
  /\ \/ /\ Exit(1, "read")
        /\ UNCHANGED file2_lines
     \/ /\ \E t \in Tables : file2_lines' = t
        /\ pc' = "compare"
        /\ UNCHANGED <<exit_code, error>>
  /\ UNCHANGED <<args, env, file1_lines, diff, out, reports, prompted, choice, dir_created>>

\* The dispatch on args.mode.
Compare ==
  /\ pc = "compare"
  /\ IF args.mode = "entry"
       THEN /\ diff' = EntryDiff(file1_lines, file2_lines)
            /\ pc' = "summary"
            /\ UNCHANGED <<exit_code, error>>
     ELSE IF args.mode = "literal" \/ args.mode = ""
       THEN /\ diff' = [lines |-> LiteralDiff(file1_lines, file2_lines,
                                              args.file1, args.file2)]
            /\ pc' = "summary"
            /\ UNCHANGED <<exit_code, error>>
     ELSE /\ Exit(1, "unknown_mode")
          /\ UNCHANGED diff
  /\ UNCHANGED <<args, env, file1_lines, file2_lines, opened, out, reports,
                 prompted, choice, dir_created>>

\* "Check for differences and provide summary": main returns when the diff
\* is empty.
CheckDifferences ==
  /\ pc = "summary"
  /\ IF IsEmptyDiff(diff, args.mode)
       THEN /\ out' = Append(out, Line("No differences found - files are identical.", 0, <<>>))
            /\ exit_code' = 0
            /\ pc' = "done"
       ELSE /\ pc' = "findings"
            /\ UNCHANGED <<out, exit_code>>
  /\ UNCHANGED <<args, env, file1_lines, file2_lines, opened, diff, reports,
                 prompted, choice, dir_created, error>>

\* "Report findings": the counts printed after "Analysis complete".
ReportFindings ==
  /\ pc = "findings"
  /\ out' = IF args.mode = "entry"
              THEN out \o << Line("  Common rows: ", diff.stats.common_count, <<>>),
                             Line("  Unique to File A: ", diff.stats.file1_unique, <<>>),
                             Line("  Unique to File B: ", diff.stats.file2_unique, <<>>) >>
              ELSE Append(out, Line("Analysis complete: N lines differ",
                                    DiffCount(diff.lines), <<>>))
  /\ pc' = "check_dir"
  /\ UNCHANGED <<args, env, file1_lines, file2_lines, opened, diff, reports,
                 prompted, choice, dir_created, exit_code, error>>

\* check_output_directory(get_proper_output_path(args.output))
CheckOutputDirectory ==
  /\ pc = "check_dir"
  /\ IF ~(env.dir_exists \/ dir_created)
       THEN /\ prompted' = TRUE
            /\ \E reply \in Replies :
                 /\ choice' = reply
                 /\ IF Accepts(reply)
                      THEN /\ dir_created' = TRUE
                           /\ pc' = "write"
                           /\ UNCHANGED <<exit_code, error>>
                      ELSE /\ Exit(1, "declined")
                           /\ UNCHANGED dir_created
       ELSE /\ pc' = "write"
            /\ UNCHANGED <<prompted, choice, dir_created, exit_code, error>>
  /\ UNCHANGED <<args, env, file1_lines, file2_lines, opened, diff, out, reports>>

\* "if args.output:" a Path is always true; the report is formatted and
\* written to diff_report_<timestamp>.diff in the output directory.
WriteReport ==
  /\ pc = "write"
  /\ reports' = Append(reports,
                  GenerateDiffReport(diff, args.mode, args.file1, args.file2))
  /\ out' = Append(out, Line("Report saved: ", 0, <<>>))
  /\ pc' = "count"
  /\ UNCHANGED <<args, env, file1_lines, file2_lines, opened, diff, prompted,
                 choice, dir_created, exit_code, error>>

\* "if args.count:" and the end of main.
PrintCount ==
  /\ pc = "count"
  /\ out' = IF ~args.count THEN out
            ELSE IF args.mode = "entry"
              THEN Append(out, Line("Total differing rows: ",
                     diff.stats.file1_unique + diff.stats.file2_unique, <<>>))
              ELSE Append(out, Line("Total differing lines: ",
                     DiffCount(diff.lines), <<>>))
  /\ exit_code' = 0
  /\ pc' = "done"
  /\ UNCHANGED <<args, env, file1_lines, file2_lines, opened, diff, reports,
                 prompted, choice, dir_created, error>>

Next ==
  \/ ParseArguments
  \/ CheckFileTypes
  \/ ReadFile1
  \/ ReadFile2
  \/ Compare
  \/ CheckDifferences
  \/ ReportFindings
  \/ CheckOutputDirectory
  \/ WriteReport
  \/ PrintCount

Spec == Init /\ [][Next]_vars

----------------------------------------------------------------------------
(* Properties of entry_diff and literal_diff *)

\* No row occurs twice in the table.
NoDuplicates(lines) ==
  \A i \in DOMAIN lines : \A j \in DOMAIN lines : i # j => lines[i] # lines[j]

\* The rows of a list, as a set.
Elements(list) == {list[i] : i \in DOMAIN list}

\* Each row of the list is smaller than the next one.
StrictlyAscending(list) ==
  \A i \in 1..(Len(list) - 1) : TupleLess(list[i], list[i + 1])

\* C1, as the specification states it: for every pair of tables, the
\* statistics of entry_diff satisfy file1_total = common_count + file1_unique
\* and file2_total = common_count + file2_unique.
C1_TotalsOverDistinctRows ==
  IsDict(diff) =>
    /\ diff.stats.file1_total = diff.stats.common_count + diff.stats.file1_unique
    /\ diff.stats.file2_total = diff.stats.common_count + diff.stats.file2_unique

\* C1, amended: file1_total and file2_total are the raw row counts of the
\* two tables; each is at least common_count plus the unique count of its
\* side, and equal to it exactly when the table has no duplicate rows.
C1_TotalsAreRawRowCounts ==
  IsDict(diff) =>
    LET st == diff.stats
    IN /\ st.file1_total = Len(file1_lines)
       /\ st.file2_total = Len(file2_lines)
       /\ st.file1_total >= st.common_count + st.file1_unique
       /\ st.file2_total >= st.common_count + st.file2_unique
       /\ (st.file1_total = st.common_count + st.file1_unique) <=> NoDuplicates(file1_lines)
       /\ (st.file2_total = st.common_count + st.file2_unique) <=> NoDuplicates(file2_lines)

\* A comparison in entry mode of a table with a repeated row against one
\* without.
C1_Witness ==
  /\ IsDict(diff)
  /\ ~NoDuplicates(file1_lines)
  /\ NoDuplicates(file2_lines)
  /\ file2_lines # <<>>

\* C2: the three lists of entry_diff are pairwise disjoint, file1_unique is
\* the number of distinct rows of A less the length of common, file2_unique
\* the same for B; for A without rows file1_unique = 0 and file2_unique is
\* the number of distinct rows of B.
C2_DisjointListsAndUniqueCounts ==
  IsDict(diff) =>
    /\ Elements(diff.file1_only) \cap Elements(diff.common) = {}
    /\ Elements(diff.file2_only) \cap Elements(diff.common) = {}
    /\ Elements(diff.file1_only) \cap Elements(diff.file2_only) = {}
    /\ diff.stats.file1_unique = Cardinality(RowSet(file1_lines)) - Len(diff.common)
    /\ diff.stats.file2_unique = Cardinality(RowSet(file2_lines)) - Len(diff.common)
    /\ (Len(file1_lines) = 0 =>
          /\ diff.stats.file1_unique = 0
          /\ diff.stats.file2_unique = Cardinality(RowSet(file2_lines)))

\* An empty table compared in entry mode against a table with rows.
C2_Witness ==
  /\ IsDict(diff)
  /\ Len(file1_lines) = 0
  /\ Len(file2_lines) > 0
  /\ diff.stats.file2_unique > 0

\* C8: entry_diff(A,B).file1_only = entry_diff(B,A).file2_only,
\* entry_diff(A,B).file2_only = entry_diff(B,A).file1_only and the common
\* lists of the two directions are equal, all as ordered lists.
C8_EntryDiffSymmetry ==
  IsDict(diff) =>
    LET swapped == EntryDiff(file2_lines, file1_lines)
    IN /\ diff.file1_only = swapped.file2_only
       /\ diff.file2_only = swapped.file1_only
       /\ diff.common = swapped.common

\* A comparison in entry mode where each of the three lists has a row.
C8_Witness ==
  /\ IsDict(diff)
  /\ diff.file1_only # <<>>
  /\ diff.file2_only # <<>>
  /\ diff.common # <<>>

\* C9: each list of entry_diff is strictly ascending in the lexicographic
\* order of the rows' fields, and the three lists are the same for any two
\* tables that have the same distinct rows as A and B.
C9_SortedAndOrderIndependent ==
  IsDict(diff) =>
    /\ StrictlyAscending(diff.file1_only)
    /\ StrictlyAscending(diff.file2_only)
    /\ StrictlyAscending(diff.common)
    /\ \A t \in Tables :
         /\ RowSet(t) = RowSet(file1_lines) =>
              LET other == EntryDiff(t, file2_lines)
              IN /\ other.file1_only = diff.file1_only
                 /\ other.file2_only = diff.file2_only
                 /\ other.common = diff.common
         /\ RowSet(t) = RowSet(file2_lines) =>
              LET other == EntryDiff(file1_lines, t)
              IN /\ other.file1_only = diff.file1_only
                 /\ other.file2_only = diff.file2_only
                 /\ other.common = diff.common

\* A comparison in entry mode whose file1_only has two rows that the file
\* holds in the opposite order.
C9_Witness ==
  /\ IsDict(diff)
  /\ Len(diff.file1_only) = 2
  /\ Len(file1_lines) = 2
  /\ file1_lines[1] = diff.file1_only[2]
  /\ file1_lines[2] = diff.file1_only[1]

\* C10: when the rows of A and B join to the same sequence of lines,
\* literal_diff(A,B) is the empty sequence.
C10_LiteralDiffOfEqualLinesIsEmpty ==
  (IsList(diff) /\ RowStrings(file1_lines) = RowStrings(file2_lines))
    => diff.lines = <<>>

\* A literal comparison of two different tables that join to the same lines.
C10_Witness ==
  /\ IsList(diff)
  /\ file1_lines # file2_lines
  /\ file1_lines # <<>>
  /\ RowStrings(file1_lines) = RowStrings(file2_lines)
  /\ diff.lines = <<>>

----------------------------------------------------------------------------
(* Properties of a run *)

\* The comparison of the run has produced its diff.
DiffComputed == IsList(diff) \/ IsDict(diff)

\* The diff is empty in the sense of the specification: no hunk line in
\* literal mode, no row on either unique list in entry mode.
DiffIsEmpty ==
  \/ IsList(diff) /\ diff.lines = <<>>
  \/ IsDict(diff) /\ diff.file1_only = <<>> /\ diff.file2_only = <<>>

\* The command line had no -m: argparse admits "summary" in no other way.
ModeOmitted == args.mode = DefaultMode

\* The extensions of the two paths as the specification requires them: the
\* same on both sides and, letter case aside, ".csv".
ExtensionsMatch == args.file1.suffix = args.file2.suffix
ExtensionSupported == Lower(args.file1.suffix) = SuffixCsv

\* check_file_types has been gone through.
PastValidation == pc \notin {"start", "validate"} /\ error # "usage"

\* The kinds of failure a run can end with.
TypeErrors == {"type_mismatch", "type_unsupported"}
ModeErrors == {"usage", "unknown_mode"}

\* C3: when the mode flag is omitted the run dispatches to literal_diff and
\* never reaches the unknown-mode error exit.
C3_OmittedModeRunsLiteral ==
  ModeOmitted =>
    /\ error # "unknown_mode"
    /\ pc \in {"summary", "findings", "check_dir", "write", "count"} => IsList(diff)

\* C4: in every run whose diff is empty, and so for two identical files in
\* either mode, the run returns the "no differences" status, writes no
\* report file and neither prompts for nor creates the output directory.
C4_EmptyDiffWritesNothing ==
  /\ (DiffComputed /\ file1_lines = file2_lines) => DiffIsEmpty
  /\ (DiffComputed /\ DiffIsEmpty) =>
       /\ pc \in {"summary", "done"}
       /\ reports = <<>>
       /\ ~prompted
       /\ ~dir_created
       /\ pc = "done" =>
            /\ exit_code = 0
            /\ error = "none"
            /\ out = << Line("No differences found - files are identical.", 0, <<>>) >>

\* A finished run in entry mode on two identical tables with rows, with the
\* output directory missing.
C4_Witness ==
  /\ pc = "done"
  /\ IsDict(diff)
  /\ file1_lines = file2_lines
  /\ file1_lines # <<>>
  /\ ~env.dir_exists

\* C5: no input file is opened unless the two extensions match and are the
\* supported one; a run with extensions that differ or are unsupported ends
\* with the unsupported-type error and no file opened; a run whose inputs
\* share the .csv extension passes the check and goes on to load both
\* tables (only an unreadable file stops it before both are loaded).
C5_TypeCheckBeforeOpen ==
  /\ opened # {} => (ExtensionsMatch /\ ExtensionSupported)
  /\ (PastValidation /\ ~(ExtensionsMatch /\ ExtensionSupported)) =>
       /\ pc = "done"
       /\ error \in TypeErrors
       /\ exit_code = 1
       /\ opened = {}
  /\ (PastValidation /\ ExtensionsMatch /\ ExtensionSupported) =>
       /\ error \notin TypeErrors
       /\ pc = "read1" \/ 1 \in opened
       /\ (pc \notin {"read1", "read2"} /\ error # "read") => opened = {1, 2}

\* Both tables loaded from two files named with the extension ".CSV".
C5_Witness ==
  /\ pc = "compare"
  /\ opened = {1, 2}
  /\ args.file1.suffix = SuffixCSV
  /\ file1_lines # <<>>
  /\ file2_lines # <<>>

\* C6, as the specification states it: a run ends with a failure status
\* exactly when it hit a bad file type, an unreadable file or an unknown
\* mode; every run in which the comparison completes ends with success.
C6_FailureOnlyForTypeReadMode ==
  pc = "done" =>
    /\ exit_code # 0 <=> error \in (TypeErrors \cup ModeErrors \cup {"read"})
    /\ DiffComputed => exit_code = 0

\* C6, amended: a run ends with a failure status exactly when it hit a bad
\* file type, an unreadable file, an unknown mode, or a reply other than
\* y/Y to the prompt for creating the missing output directory; every run
\* in which the comparison completes ends with success unless that prompt
\* is declined.
C6_FailureAlsoWhenDirectoryDeclined ==
  pc = "done" =>
    /\ exit_code # 0 <=> error \in (TypeErrors \cup ModeErrors \cup {"read", "declined"})
    /\ exit_code = 0 <=> error = "none"
    /\ (DiffComputed /\ exit_code # 0) <=> (prompted /\ Lower(choice) # ReplyY)
    /\ (args # NoArgs /\ ~(ExtensionsMatch /\ ExtensionSupported)) => error \in TypeErrors
    /\ (opened = {1, 2} /\ error # "read" /\ args.mode \notin {"literal", "entry"})
         => error = "unknown_mode"
    /\ error = "declined" => (DiffComputed /\ ~DiffIsEmpty /\ ~env.dir_exists)

\* A finished run that found differences and was refused the directory.
C6_Witness ==
  /\ pc = "done"
  /\ DiffComputed
  /\ ~DiffIsEmpty
  /\ prompted
  /\ choice = ReplyN
  /\ exit_code = 1

\* C7, as the specification states it: every run whose diff is not empty
\* has, when it ends, persisted exactly one report file holding the
\* formatter's output.
C7_NonEmptyDiffAlwaysPersisted ==
  (pc = "done" /\ DiffComputed /\ ~DiffIsEmpty) =>
    reports = << GenerateDiffReport(diff, args.mode, args.file1, args.file2) >>

\* C7, amended: every run whose diff is not empty and whose output
\* directory exists, or is created on a y/Y reply to the prompt, has, when it
\* ends, persisted exactly one report file holding the formatter's output in
\* that directory; a run whose prompt is answered otherwise ends with no
\* report file, and no run ever holds more than one.
C7_NonEmptyDiffPersistedUnlessDeclined ==
  /\ Len(reports) <= 1
  /\ reports # <<>> => (env.dir_exists \/ dir_created)
  /\ (pc = "done" /\ DiffComputed /\ ~DiffIsEmpty) =>
       IF env.dir_exists \/ (prompted /\ Lower(choice) = ReplyY)
         THEN reports = << GenerateDiffReport(diff, args.mode, args.file1, args.file2) >>
         ELSE reports = <<>> /\ ~dir_created

\* A finished run that found differences, got "Y" at the prompt and wrote
\* its report into the directory it created.
C7_Witness ==
  /\ pc = "done"
  /\ DiffComputed
  /\ ~DiffIsEmpty
  /\ choice = ReplyUpperY
  /\ dir_created
  /\ Len(reports) = 1

----------------------------------------------------------------------------
(* Properties of the remaining claims *)

\* C11: entry_diff(A,A) has empty file1_only and file2_only, a common list
\* that holds exactly the distinct rows of A, each once, and the counts
\* file1_unique = file2_unique = 0, common_count = number of distinct rows.
C11_EntryDiffOfTableWithItself ==
  (IsDict(diff) /\ file1_lines = file2_lines) =>
    /\ diff.file1_only = <<>>
    /\ diff.file2_only = <<>>
    /\ Elements(diff.common) = RowSet(file1_lines)
    /\ Len(diff.common) = Cardinality(RowSet(file1_lines))
    /\ diff.stats.file1_unique = 0
    /\ diff.stats.file2_unique = 0
    /\ diff.stats.common_count = Cardinality(RowSet(file1_lines))

\* An entry comparison of a table with itself, the table holding a row twice.
C11_Witness ==
  /\ IsDict(diff)
  /\ file1_lines = file2_lines
  /\ Len(file1_lines) = 2
  /\ ~NoDuplicates(file1_lines)
  /\ Len(diff.common) = 1

\* The row lines the opcodes of the two line sequences remove and add.
RECURSIVE ChangedLines(_)
ChangedLines(codes) ==
  IF codes = <<>> THEN 0
  ELSE LET c == Head(codes)
       IN (IF c.tag \in {"replace", "delete"} THEN c.i2 - c.i1 ELSE 0)
          + (IF c.tag \in {"replace", "insert"} THEN c.j2 - c.j1 ELSE 0)
          + ChangedLines(Tail(codes))

RemovedPlusAdded ==
  ChangedLines(GetOpcodes(RowStrings(file1_lines), RowStrings(file2_lines)))

\* C12: in literal mode, for a non-empty diff, the number printed in
\* "Analysis complete: N lines differ" and in "Total differing lines: N" is
\* the number of removed row lines plus the number of added row lines of the
\* unified diff.
C12_ReportedCountIsRemovedPlusAdded ==
  (IsList(diff) /\ diff.lines # <<>>) =>
    \A i \in DOMAIN out :
      out[i].lit \in {"Analysis complete: N lines differ", "Total differing lines: "}
        => out[i].n = RemovedPlusAdded

====
